---- MODULE Spec2Model ----
(***************************************************************************)
(* Model of file-uploader/upload_file.py: discovery of files under a root  *)
(* folder, conversion to FileWithMeta objects, upload of their metadata to *)
(* CDF RAW in one batch and of the files themselves, one request each.     *)
(*                                                                         *)
(* Python strings that the code takes apart (paths, patterns, file names)  *)
(* are sequences of one-character strings; a Path is the sequence of its   *)
(* parts.  Dictionaries are functions whose domain is a set of keys.       *)
(***************************************************************************)
EXTENDS FiniteSets, Integers, Sequences, TLC

VARIABLES
    fs,             \* snapshot of the filesystem: the input folder and what is below it
    argv,           \* the command line the process was started with
    args,           \* the parsed command line (argparse namespace)
    pc,             \* position of the process in main / process_path
    file_paths,     \* process_path: list returned by match_files
    file_objects,   \* process_path: list returned by convert_to_file_objects
    raw_status,     \* client.raw.rows.insert: "none", "inflight", "ok", "failed"
    inserts,        \* client.raw.rows.insert calls issued so far
    upload_invoked, \* upload_files_to_cdf has been entered
    upload_objects, \* the objects argument upload_files_to_cdf was entered with
    idx,            \* upload_files_to_cdf: loop index i (0-based)
    inflight,       \* indices whose client.files.upload has not returned yet
    uploads,        \* client.files.upload calls issued so far
    outcomes,       \* how each issued client.files.upload ended
    log,            \* records written to the logger at WARNING and above
    result,         \* how the process run ended
    exit_code,      \* process exit status
    found           \* test harness: match_files results per recursive flag

vars == <<fs, argv, args, pc, file_paths, file_objects, raw_status,
          inserts, upload_invoked, upload_objects, idx, inflight, uploads,
          outcomes, log, result, exit_code, found>>

(***************************************************************************)
(* Bounds of the model.                                                    *)
(***************************************************************************)
MaxEntries == 3

(***************************************************************************)
(* Strings and paths.                                                      *)
(***************************************************************************)
Sep == "/"

None == "None"

NonEmpty(s) == s # <<>>

RECURSIVE Join(_)
Join(segs) ==
    IF segs = <<>> THEN <<>>
    ELSE IF Len(segs) = 1 THEN segs[1]
    ELSE segs[1] \o <<Sep>> \o Join(Tail(segs))

RECURSIVE SplitFrom(_, _, _)
SplitFrom(s, sep, cur) ==
    IF s = <<>> THEN <<cur>>
    ELSE IF Head(s) = sep THEN <<cur>> \o SplitFrom(Tail(s), sep, <<>>)
    ELSE SplitFrom(Tail(s), sep, Append(cur, Head(s)))

Split(s, sep) == SplitFrom(s, sep, <<>>)

PathStr(parts) == IF parts = <<>> THEN <<".">> ELSE Join(parts)

Parent(parts) == IF parts = <<>> THEN <<>> ELSE SubSeq(parts, 1, Len(parts) - 1)

RelativeTo(path, root) == SubSeq(path, Len(root) + 1, Len(path))

Name(path) == IF path = <<>> THEN <<>> ELSE path[Len(path)]

StartsWith(s, c) == s # <<>> /\ Head(s) = c

CwdParts == << <<"/">> >>

Resolve(path) == CwdParts \o SelectSeq(path, LAMBDA part : part # <<".">>)

RECURSIVE FnMatch(_, _)
FnMatch(name, pat) ==
    IF pat = <<>> THEN name = <<>>
    ELSE IF Head(pat) = "*"
         THEN \/ FnMatch(name, Tail(pat))
              \/ name # <<>> /\ FnMatch(Tail(name), pat)
    ELSE IF name = <<>> THEN FALSE
    ELSE /\ Head(pat) = "?" \/ Head(pat) = Head(name)
         /\ FnMatch(Tail(name), Tail(pat))

(***************************************************************************)
(* mimetypes.guess_type: lookup of the extension in a static table.  The   *)
(* extension is what follows the last dot, leading dots not counted.       *)
(***************************************************************************)
LastDot(name) ==
    LET dots == {i \in 2..Len(name) : name[i] = "." /\ \E j \in 1..(i - 1) : name[j] # "."}
    IN  IF dots = {} THEN 0 ELSE CHOOSE i \in dots : \A j \in dots : j <= i

Extension(name) ==
    IF LastDot(name) = 0 THEN <<>> ELSE SubSeq(name, LastDot(name), Len(name))

TypesMap ==
    (<<".", "p", "d", "f">> :> "application/pdf") @@ (<<".", "t", "x", "t">> :> "text/plain")

GuessType(name) ==
    IF Extension(name) \in DOMAIN TypesMap THEN TypesMap[Extension(name)] ELSE None

(***************************************************************************)
(* FileWithMeta.                                                           *)
(***************************************************************************)
EmptyDict == <<>>

ColKey(i) == "col" \o ToString(i)

FolderMetadata(folder_path) ==
    LET segs == Split(folder_path, Sep)
    IN  ("folder" :> folder_path) @@ [k \in {ColKey(i - 1) : i \in 1..Len(segs)} |->
            segs[CHOOSE i \in 1..Len(segs) : ColKey(i - 1) = k]]

from_path(path, root_path) ==
    LET rel         == RelativeTo(path, root_path)
        external_id == PathStr(rel)
        mime_type   == GuessType(Name(path))
        folder_path == PathStr(Parent(rel))
        metadata    == IF NonEmpty(folder_path) THEN FolderMetadata(folder_path) ELSE EmptyDict
    IN  [path |-> Resolve(path), external_id |-> external_id, name |-> Name(path),
         mime_type |-> mime_type, metadata |-> metadata]

raw_columns(obj) ==
    LET base == ("name" :> obj.name) @@ ("external_id" :> obj.external_id)
        mime == IF obj.mime_type # None THEN ("mime_type" :> obj.mime_type) @@ base ELSE base
    IN  obj.metadata @@ mime

convert_to_file_objects(root_path, paths) ==
    [i \in 1..Len(paths) |-> from_path(paths[i], root_path)]

(***************************************************************************)
(* The filesystem.  An entry is a path (its parts, the input folder's      *)
(* first) and a kind.  A snapshot holds the input folder, some of the      *)
(* candidate entries below it, and every directory leading to them.        *)
(***************************************************************************)
InputDir == << <<"r">> >>

CandidateEntries ==
    { [path |-> << <<"e", ".", "t", "x", "t">> >>,                kind |-> "file"],
      [path |-> << <<"x", ".", "p", "d", "f">> >>,                kind |-> "file"],
      [path |-> << <<".", "z">> >>,                               kind |-> "file"],
      [path |-> << <<"a">>, <<"x", ".", "p", "d", "f">> >>,       kind |-> "file"],
      [path |-> << <<"a">>, <<"b">>, <<"y">> >>,                  kind |-> "file"],
      [path |-> << <<".", "h">>, <<"x", ".", "p", "d", "f">> >>,  kind |-> "file"],
      [path |-> << <<"a">>, <<"q">> >>,                           kind |-> "fifo"] }

Snapshot(chosen) ==
    LET below == {[path |-> InputDir \o c.path, kind |-> c.kind] : c \in chosen}
        dirs  == UNION {{[path |-> SubSeq(e.path, 1, n), kind |-> "dir"] :
                            n \in 1..(Len(e.path) - 1)} : e \in below}
    IN  below \cup dirs \cup {[path |-> InputDir, kind |-> "dir"]}

Snapshots ==
    { {}, {[path |-> InputDir, kind |-> "file"]} }
        \cup {Snapshot(chosen) : chosen \in {c \in SUBSET CandidateEntries : Cardinality(c) <= MaxEntries}}

exists(path) == \E e \in fs : e.path = path

is_dir(path) == \E e \in fs : e.path = path /\ e.kind = "dir"

is_file(path) == \E e \in fs : e.path = path /\ e.kind = "file"

(***************************************************************************)
(* Path.glob and Path.rglob.  The pattern is split into its components;    *)
(* glob matches them against the parts below the folder, rglob against the *)
(* last parts of any path below the folder.  Nothing is found below a      *)
(* path that is not a directory.                                           *)
(***************************************************************************)
PartsMatch(parts, comps) ==
    /\ Len(parts) = Len(comps)
    /\ \A i \in 1..Len(comps) : FnMatch(parts[i], comps[i])

Below(root_path) ==
    {e.path : e \in {f \in fs : /\ Len(f.path) > Len(root_path)
                                /\ SubSeq(f.path, 1, Len(root_path)) = root_path}}

glob(root_path, pattern) ==
    IF ~is_dir(root_path) THEN {}
    ELSE {p \in Below(root_path) : PartsMatch(RelativeTo(p, root_path), Split(pattern, Sep))}

rglob(root_path, pattern) ==
    IF ~is_dir(root_path) THEN {}
    ELSE {p \in Below(root_path) :
            LET rel   == RelativeTo(p, root_path)
                comps == Split(pattern, Sep)
            IN  /\ Len(rel) >= Len(comps)
                /\ PartsMatch(SubSeq(rel, Len(rel) - Len(comps) + 1, Len(rel)), comps)}

match_files_always_rglob(root_path, filename_pattern, recursive) ==
    LET paths == rglob(root_path, filename_pattern)
    IN  {path \in paths : is_file(path) /\ ~StartsWith(Name(path), ".")}

match_files_keep_hidden(root_path, filename_pattern, recursive) ==
    LET paths == IF recursive THEN rglob(root_path, filename_pattern)
                 ELSE glob(root_path, filename_pattern)
    IN  {path \in paths : is_file(path)}

match_files(root_path, filename_pattern, recursive) ==
    LET paths == IF recursive THEN rglob(root_path, filename_pattern)
                 ELSE glob(root_path, filename_pattern)
    IN  {path \in paths : is_file(path) /\ ~StartsWith(Name(path), ".")}

Orderings(S) ==
    {s \in [1..Cardinality(S) -> S] : \A i, j \in 1..Cardinality(S) : s[i] = s[j] => i = j}

(***************************************************************************)
(* The command line.                                                       *)
(***************************************************************************)
Flags == {"--non-recursive", "--upload-to-cdf", "--upload-to-raw", "--no-overwrite", "--ignore-meta"}

PatternOptions == {None, <<"*", ".", "p", "d", "f">>, <<"?">>, <<"a", "/", "*">>}

CommandLines == [flags : SUBSET Flags, pattern : PatternOptions]

_parse_cli_args_cdf_on(cmd) ==
    [input_dir     |-> InputDir,
     pattern       |-> IF cmd.pattern = None THEN <<"*">> ELSE cmd.pattern,
     non_recursive |-> "--non-recursive" \in cmd.flags,
     upload_to_cdf |-> TRUE,
     no_overwrite  |-> "--no-overwrite" \in cmd.flags,
     ignore_meta   |-> "--ignore-meta" \in cmd.flags,
     upload_to_raw |-> "--upload-to-raw" \in cmd.flags,
     raw_db        |-> "LandingZone",
     raw_table     |-> "FileExtractor"]

_parse_cli_args(cmd) ==
    [input_dir     |-> InputDir,
     pattern       |-> IF cmd.pattern = None THEN <<"*">> ELSE cmd.pattern,
     non_recursive |-> "--non-recursive" \in cmd.flags,
     upload_to_cdf |-> "--upload-to-cdf" \in cmd.flags,
     no_overwrite  |-> "--no-overwrite" \in cmd.flags,
     ignore_meta   |-> "--ignore-meta" \in cmd.flags,
     upload_to_raw |-> "--upload-to-raw" \in cmd.flags,
     raw_db        |-> "LandingZone",
     raw_table     |-> "FileExtractor"]

(***************************************************************************)
(* What the remote store and the machine can answer to a call.             *)
(***************************************************************************)
LoginOutcomes == {"ok", "api_error", "other_error"}

InsertOutcomes == {"ok", "api_error", "other_error"}

UploadOutcomes == {"ok", "api_error", "other_error"}

LogRecord(level, msg, subject) == [level |-> level, msg |-> msg, subject |-> subject]

(***************************************************************************)
(* Initial state: the process has parsed its command line, nothing ran.    *)
(***************************************************************************)
Init ==
    /\ fs \in Snapshots
    /\ argv \in CommandLines
    /\ args = _parse_cli_args(argv)
    /\ pc = "main"
    /\ file_paths = <<>>
    /\ file_objects = <<>>
    /\ raw_status = "none"
    /\ inserts = <<>>
    /\ upload_invoked = FALSE
    /\ upload_objects = <<>>
    /\ idx = 0
    /\ inflight = {}
    /\ uploads = <<>>
    /\ outcomes = <<>>
    /\ log = <<>>
    /\ result = "running"
    /\ exit_code = -1
    /\ found = [recursive \in BOOLEAN |-> [called |-> FALSE, paths |-> {}]]

(***************************************************************************)
(* main: the input folder check and the creation of the client.            *)
(***************************************************************************)
CheckInputDir ==
    /\ pc = "main"
    /\ IF ~exists(args.input_dir)
       THEN /\ log' = Append(log, LogRecord("CRITICAL", "Input folder does not exists", None))
            /\ pc' = "exited"
            /\ result' = "exit"
            /\ exit_code' = 2
       ELSE /\ pc' = "client"
            /\ UNCHANGED <<log, result, exit_code>>
    /\ UNCHANGED <<fs, argv, args, file_paths, file_objects, raw_status, inserts, upload_invoked,
                   upload_objects, idx, inflight, uploads, outcomes, found>>

CreateClient ==
    /\ pc = "client"
    /\ \E outcome \in LoginOutcomes :
         \/ /\ outcome = "ok"
            /\ pc' = "match_files"
            /\ UNCHANGED <<log, result, exit_code>>
         \/ /\ outcome = "api_error"
            /\ log' = Append(log, LogRecord("ERROR", "Failed to create CDF client", None))
            /\ pc' = "match_files"
            /\ UNCHANGED <<result, exit_code>>
         \/ /\ outcome = "other_error"
            /\ pc' = "exited"
            /\ result' = "crashed"
            /\ exit_code' = 1
            /\ UNCHANGED log
    /\ UNCHANGED <<fs, argv, args, file_paths, file_objects, raw_status, inserts, upload_invoked,
                   upload_objects, idx, inflight, uploads, outcomes, found>>

(***************************************************************************)
(* process_path: discovery and construction of the objects.                *)
(***************************************************************************)
StageAfter_upload_first(stage) ==
    IF stage = "convert" /\ args.upload_to_cdf THEN "upload"
    ELSE IF stage = "convert" /\ args.upload_to_raw THEN "raw"
    ELSE "return"

StageAfter(stage) ==
    IF stage = "convert" /\ args.upload_to_raw THEN "raw"
    ELSE IF stage \in {"convert", "raw"} /\ args.upload_to_cdf THEN "upload"
    ELSE "return"

MatchFiles ==
    /\ pc = "match_files"
    /\ file_paths' \in Orderings(match_files(args.input_dir, args.pattern, ~args.non_recursive))
    /\ pc' = "convert"
    /\ UNCHANGED <<fs, argv, args, file_objects, raw_status, inserts, upload_invoked, upload_objects,
                   idx, inflight, uploads, outcomes, log, result, exit_code, found>>

ConvertToFileObjects ==
    /\ pc = "convert"
    /\ file_objects' = convert_to_file_objects(args.input_dir, file_paths)
    /\ pc' = StageAfter("convert")
    /\ UNCHANGED <<fs, argv, args, file_paths, raw_status, inserts, upload_invoked, upload_objects,
                   idx, inflight, uploads, outcomes, log, result, exit_code, found>>

(***************************************************************************)
(* upload_metadata_to_raw: one rows.insert call for all objects.  An error *)
(* of the call is not handled in process_path: it reaches the handler of   *)
(* main, which logs it and ends the run.                                   *)
(***************************************************************************)
Row(key, columns) == [key |-> key, columns |-> columns]

RawRows_typed_only(objects) ==
    LET typed == SelectSeq(objects, LAMBDA obj : obj.mime_type # None)
    IN  [i \in 1..Len(typed) |-> Row(typed[i].external_id, raw_columns(typed[i]))]

RawRows(objects) ==
    [i \in 1..Len(objects) |-> Row(objects[i].external_id, raw_columns(objects[i]))]

RawInsertCall ==
    /\ pc = "raw"
    /\ inserts' = Append(inserts, [database |-> args.raw_db, table |-> args.raw_table,
                                   rows |-> RawRows(file_objects), ensure_parent |-> TRUE])
    /\ raw_status' = "inflight"
    /\ pc' = "raw_wait"
    /\ UNCHANGED <<fs, argv, args, file_paths, file_objects, upload_invoked, upload_objects,
                   idx, inflight, uploads, outcomes, log, result, exit_code, found>>

RawInsertReturn ==
    /\ pc = "raw_wait"
    /\ \E outcome \in InsertOutcomes :
         IF outcome = "ok"
         THEN /\ raw_status' = "ok"
              /\ pc' = StageAfter("raw")
              /\ UNCHANGED <<log, result, exit_code>>
         ELSE /\ raw_status' = "failed"
              /\ log' = Append(log, LogRecord("ERROR", outcome, None))
              /\ pc' = "exited"
              /\ result' = "error"
              /\ exit_code' = 0
    /\ UNCHANGED <<fs, argv, args, file_paths, file_objects, inserts, upload_invoked, upload_objects,
                   idx, inflight, uploads, outcomes, found>>

(***************************************************************************)
(* upload_files_to_cdf: one files.upload call per object, in list order.   *)
(* Only CogniteAPIError is handled inside the loop.                        *)
(***************************************************************************)
HandledInLoop_nothing(outcome) == FALSE

HandledInLoop(outcome) == outcome = "api_error"

UploadRequest(obj) ==
    [path        |-> obj.path,
     name        |-> obj.name,
     external_id |-> obj.external_id,
     mime_type   |-> obj.mime_type,
     metadata    |-> IF ~args.ignore_meta THEN obj.metadata ELSE None,
     overwrite   |-> ~args.no_overwrite]

EnterUpload ==
    /\ pc = "upload"
    /\ upload_invoked' = TRUE
    /\ upload_objects' = file_objects
    /\ idx' = 0
    /\ pc' = "loop"
    /\ UNCHANGED <<fs, argv, args, file_paths, file_objects, raw_status, inserts, inflight,
                   uploads, outcomes, log, result, exit_code, found>>

UploadCall ==
    /\ pc = "loop"
    /\ idx < Len(upload_objects)
    /\ uploads' = Append(uploads, UploadRequest(upload_objects[idx + 1]))
    /\ inflight' = inflight \cup {idx}
    /\ pc' = "upload_wait"
    /\ UNCHANGED <<fs, argv, args, file_paths, file_objects, raw_status, inserts, upload_invoked,
                   upload_objects, idx, outcomes, log, result, exit_code, found>>

UploadReturn ==
    /\ pc = "upload_wait"
    /\ \E outcome \in UploadOutcomes :
         /\ outcomes' = Append(outcomes, outcome)
         /\ inflight' = inflight \ {idx}
         /\ IF outcome = "ok"
            THEN /\ idx' = idx + 1
                 /\ pc' = "loop"
                 /\ UNCHANGED <<log, result, exit_code>>
            ELSE IF HandledInLoop(outcome)
            THEN /\ log' = Append(log, LogRecord("ERROR", "Failed to upload",
                                                 upload_objects[idx + 1].external_id))
                 /\ idx' = idx + 1
                 /\ pc' = "loop"
                 /\ UNCHANGED <<result, exit_code>>
            ELSE /\ log' = Append(log, LogRecord("ERROR", outcome, None))
                 /\ pc' = "exited"
                 /\ result' = "error"
                 /\ exit_code' = 0
                 /\ UNCHANGED idx
    /\ UNCHANGED <<fs, argv, args, file_paths, file_objects, raw_status, inserts, upload_invoked,
                   upload_objects, uploads, found>>

UploadLoopEnd ==
    /\ pc = "loop"
    /\ idx >= Len(upload_objects)
    /\ pc' = "return"
    /\ UNCHANGED <<fs, argv, args, file_paths, file_objects, raw_status, inserts, upload_invoked,
                   upload_objects, idx, inflight, uploads, outcomes, log, result, exit_code,
                   found>>

(***************************************************************************)
(* main: normal return of process_path, and the KeyboardInterrupt handler. *)
(***************************************************************************)
ProcessPathReturn ==
    /\ pc = "return"
    /\ pc' = "exited"
    /\ result' = "completed"
    /\ exit_code' = 0
    /\ UNCHANGED <<fs, argv, args, file_paths, file_objects, raw_status, inserts, upload_invoked,
                   upload_objects, idx, inflight, uploads, outcomes, log, found>>

KeyboardInterrupt ==
    /\ pc \in {"match_files", "convert", "raw", "raw_wait", "upload", "loop", "upload_wait", "return"}
    /\ log' = Append(log, LogRecord("WARNING", "Extractor stopped", None))
    /\ raw_status' = IF raw_status = "inflight" THEN "interrupted" ELSE raw_status
    /\ inflight' = {}
    /\ pc' = "exited"
    /\ result' = "interrupted"
    /\ exit_code' = 0
    /\ UNCHANGED <<fs, argv, args, file_paths, file_objects, inserts, upload_invoked, upload_objects,
                   idx, uploads, outcomes, found>>

Next ==
    \/ CheckInputDir
    \/ CreateClient
    \/ MatchFiles
    \/ ConvertToFileObjects
    \/ RawInsertCall
    \/ RawInsertReturn
    \/ EnterUpload
    \/ UploadCall
    \/ UploadReturn
    \/ UploadLoopEnd
    \/ ProcessPathReturn
    \/ KeyboardInterrupt

Spec == Init /\ [][Next]_vars

(***************************************************************************)
(* tests/test_upload_file.py, test_match_files: match_files is called on   *)
(* one folder with and without recursion.  The harness keeps the set of    *)
(* paths of each returned list.                                            *)
(***************************************************************************)
InitMatch ==
    /\ fs \in Snapshots
    /\ argv \in {cmd \in CommandLines : cmd.flags = {}}
    /\ args = _parse_cli_args(argv)
    /\ pc = "test"
    /\ file_paths = <<>>
    /\ file_objects = <<>>
    /\ raw_status = "none"
    /\ inserts = <<>>
    /\ upload_invoked = FALSE
    /\ upload_objects = <<>>
    /\ idx = 0
    /\ inflight = {}
    /\ uploads = <<>>
    /\ outcomes = <<>>
    /\ log = <<>>
    /\ result = "running"
    /\ exit_code = -1
    /\ found = [recursive \in BOOLEAN |-> [called |-> FALSE, paths |-> {}]]

TestMatchFiles ==
    /\ pc = "test"
    /\ \E recursive \in BOOLEAN :
         /\ ~found[recursive].called
         /\ found' = [found EXCEPT ![recursive] =
                         [called |-> TRUE,
                          paths  |-> match_files(args.input_dir, args.pattern, recursive)]]
    /\ UNCHANGED <<fs, argv, args, pc, file_paths, file_objects, raw_status, inserts,
                   upload_invoked, upload_objects, idx, inflight, uploads, outcomes, log,
                   result, exit_code>>

NextMatch == TestMatchFiles

SpecMatch == InitMatch /\ [][NextMatch]_vars

(***************************************************************************)
(* Properties.                                                             *)
(***************************************************************************)
Range(seq) == {seq[i] : i \in 1..Len(seq)}

FailedUploads == SelectSeq(log, LAMBDA r : r.msg = "Failed to upload")

ApiErrorIndices == {k \in 1..Len(outcomes) : outcomes[k] = "api_error"}

RelParts(path) == SubSeq(path, Len(args.input_dir) + 1, Len(path))

\* C1: a CogniteAPIError on the upload of item k does not end the loop: the
\* run is never ended by it, a run whose rejected uploads were all rejected
\* with CogniteAPIError issues one upload request per descriptor, in order,
\* and the failures logged are exactly those of the rejected items, each
\* under its own external_id.
C1_ApiErrorIsolated ==
    upload_invoked =>
        /\ result = "error" => outcomes[Len(outcomes)] # "api_error"
        /\ Len(FailedUploads) = Cardinality(ApiErrorIndices)
        /\ \A k \in 1..Len(outcomes) :
              outcomes[k] = "api_error" <=>
                  \E r \in Range(FailedUploads) : r.subject = upload_objects[k].external_id
        /\ result = "completed" =>
              /\ Len(uploads) = Len(upload_objects)
              /\ \A i \in 1..Len(upload_objects) :
                    uploads[i].external_id = upload_objects[i].external_id

C1_Witness ==
    /\ result = "completed"
    /\ Len(upload_objects) >= 3
    /\ outcomes[2] = "api_error"
    /\ outcomes[1] = "ok"
    /\ outcomes[3] = "ok"
    /\ Len(uploads) = 3

\* C2: when both channels are enabled and the rows insert fails, the run
\* still enters upload_files_to_cdf.
C2_UploadAfterRawFailure ==
    (/\ args.upload_to_raw
     /\ args.upload_to_cdf
     /\ file_objects # <<>>
     /\ raw_status = "failed"
     /\ pc = "exited")
        => upload_invoked

\* C3: whatever the failure of one item inside the loop, upload_files_to_cdf
\* returns normally and every descriptor gets its upload request.
C3_LoopNeverFails ==
    (upload_invoked /\ pc = "exited" /\ result # "interrupted")
        => /\ result = "completed"
           /\ Len(uploads) = Len(upload_objects)

\* C4: the metadata of an object is empty when its file is directly in the
\* root folder, and otherwise is the folder key with the relative folder plus
\* col0..col(n-1) with the n folder segments in order.
C4_MetadataShape ==
    \A i \in 1..Len(file_objects) :
        LET rel    == RelParts(file_paths[i])
            folder == SubSeq(rel, 1, Len(rel) - 1)
            meta   == file_objects[i].metadata
        IN  IF Len(rel) = 1
            THEN DOMAIN meta = {}
            ELSE /\ DOMAIN meta = {"folder"} \cup {ColKey(j - 1) : j \in 1..Len(folder)}
                 /\ meta["folder"] = Join(folder)
                 /\ \A j \in 1..Len(folder) : meta[ColKey(j - 1)] = folder[j]

\* C5: when the input folder is missing or is not a directory, the run ends
\* before discovery with a non-zero exit status and issues no rows insert and
\* no file upload.
C5_BadRootAborts ==
    (~\E e \in fs : e.path = args.input_dir /\ e.kind = "dir") =>
        /\ pc \in {"main", "exited"}
        /\ pc = "exited" => exit_code # 0
        /\ inserts = <<>>
        /\ uploads = <<>>

\* C6: the stages of process_path are strictly ordered: every remote call
\* comes after discovery and construction of all objects; with both channels
\* enabled the one rows insert has returned or failed before the first file
\* upload; uploads follow the order of the object list, each object at most
\* once, with never more than one upload in flight.
C6_StagesOrdered ==
    /\ (inserts # <<>> \/ uploads # <<>>) =>
          /\ Range(file_paths) = match_files(args.input_dir, args.pattern, ~args.non_recursive)
          /\ Len(file_objects) = Len(file_paths)
    /\ Len(inserts) <= 1
    /\ (args.upload_to_raw /\ (upload_invoked \/ uploads # <<>>)) =>
          /\ raw_status \in {"ok", "failed"}
          /\ Len(inserts) = 1
    /\ raw_status = "inflight" => (uploads = <<>> /\ inflight = {})
    /\ Cardinality(inflight) <= 1
    /\ Len(uploads) <= Len(file_objects)
    /\ \A i \in 1..Len(uploads) : uploads[i].external_id = file_objects[i].external_id
    /\ \A i, j \in 1..Len(uploads) : uploads[i].external_id = uploads[j].external_id => i = j

C6_Witness ==
    /\ args.upload_to_raw
    /\ raw_status = "ok"
    /\ Len(uploads) = 3
    /\ inflight = {2}

\* C7: nothing is filtered between discovery and an enabled channel: the rows
\* insert is issued once with ensure_parent, with one row per matched path,
\* keyed by its external_id, the mime_type column present exactly when a type
\* was guessed; upload_files_to_cdf is entered with the objects of all matched
\* paths.
C7_NoFiltering ==
    /\ \A c \in Range(inserts) :
          /\ c.ensure_parent
          /\ Range(file_paths) = match_files(args.input_dir, args.pattern, ~args.non_recursive)
          /\ Len(c.rows) = Len(file_paths)
          /\ \A i \in 1..Len(c.rows) :
                /\ c.rows[i].key = PathStr(RelParts(file_paths[i]))
                /\ c.rows[i].columns["external_id"] = c.rows[i].key
                /\ "mime_type" \in DOMAIN c.rows[i].columns
                      <=> GuessType(Name(file_paths[i])) # None
          /\ \A i, j \in 1..Len(c.rows) : c.rows[i].key = c.rows[j].key => i = j
    /\ (args.upload_to_raw /\ result \in {"completed", "error"}) => Len(inserts) = 1
    /\ Len(inserts) <= 1
    /\ upload_invoked =>
          /\ Range(file_paths) = match_files(args.input_dir, args.pattern, ~args.non_recursive)
          /\ Len(upload_objects) = Len(file_paths)
          /\ \A i \in 1..Len(file_paths) :
                upload_objects[i].external_id = PathStr(RelParts(file_paths[i]))
    /\ (args.upload_to_cdf /\ result = "completed") => upload_invoked

C7_Witness ==
    /\ Len(inserts) = 1
    /\ Len(inserts[1].rows) = 3
    /\ \E i, j \in 1..3 : /\ "mime_type" \in DOMAIN inserts[1].rows[i].columns
                          /\ "mime_type" \notin DOMAIN inserts[1].rows[j].columns
    /\ upload_invoked
    /\ Len(upload_objects) = 3

DirectChildren(paths) == {p \in paths : Len(RelParts(p)) = 1}

BothFound == found[TRUE].called /\ found[FALSE].called

\* C8 (as stated): the non-recursive result is a strict subset of the
\* recursive result and holds exactly the matching direct children of root.
C8_StrictSubset ==
    BothFound =>
        /\ found[FALSE].paths \subseteq found[TRUE].paths
        /\ found[FALSE].paths # found[TRUE].paths
        /\ found[FALSE].paths = DirectChildren(found[TRUE].paths)

\* C8 (amended): the non-recursive result is a subset of the recursive
\* result, equal to it when no match lies deeper; for a pattern without a
\* path separator it holds exactly the matching direct children of root.
C8_Subset ==
    BothFound =>
        /\ found[FALSE].paths \subseteq found[TRUE].paths
        /\ Sep \notin Range(args.pattern) =>
              found[FALSE].paths = DirectChildren(found[TRUE].paths)

C8_Witness ==
    /\ BothFound
    /\ found[FALSE].paths # {}
    /\ found[TRUE].paths \ found[FALSE].paths # {}
    /\ Sep \notin Range(args.pattern)

\* C9: whatever the root, the pattern and the recursion setting, match_files
\* returns no path whose name starts with a dot and only regular files.
C9_NoHiddenNoDirs ==
    \A recursive \in BOOLEAN :
        \A p \in found[recursive].paths :
            /\ p[Len(p)][1] # "."
            /\ \E e \in fs : e.path = p /\ e.kind = "file"

C9_Witness ==
    /\ BothFound
    /\ found[TRUE].paths # {}
    /\ \E e \in fs : /\ e.kind = "file"
                     /\ e.path[Len(e.path)][1] = "."
                     /\ FnMatch(e.path[Len(e.path)], args.pattern)
    /\ \E e \in fs : /\ e.kind # "file"
                     /\ e.path # args.input_dir
                     /\ FnMatch(e.path[Len(e.path)], args.pattern)

\* C10: a channel's remote call is issued only when its flag is on the
\* command line: without --upload-to-raw no rows insert, without
\* --upload-to-cdf no file upload, with neither flag discovery only.
C10_FlagsGateChannels ==
    /\ "--upload-to-raw" \notin argv.flags =>
          (inserts = <<>> /\ raw_status = "none")
    /\ "--upload-to-cdf" \notin argv.flags =>
          (uploads = <<>> /\ ~upload_invoked)

C10_Witness ==
    /\ argv.flags \cap {"--upload-to-raw", "--upload-to-cdf"} = {}
    /\ result = "completed"
    /\ Len(file_objects) >= 2

====
